---- MODULE Spec2Model ----
(***************************************************************************)
(* A model of the ssoq authentication service: the four operations of      *)
(* internal/services/auth/service.go (Login, Register, Logout,             *)
(* RefreshToken), the token codec of internal/jwt/jwt.go and the users /   *)
(* apps / sessions tables of internal/storage/pgsql.go.                    *)
(*                                                                         *)
(* Time is the Unix clock in whole seconds (the granularity of the exp     *)
(* claim).  A signed token is modelled by its claim set together with the  *)
(* key that signed it: HS256 over a JSON object is deterministic, so two   *)
(* tokens are the same string exactly when claims and key are the same.    *)
(***************************************************************************)
EXTENDS Integers, Sequences, FiniteSets, TLC

VARIABLES
    users,      \* the users table, in insertion order; a row's Id is its index
    sessions,   \* the sessions table: a set of rows [user_id, refresh_token]
    now,        \* the Unix clock, in seconds
    tokenTTL,   \* Auth.tokenTTL: the configured access-token lifetime, seconds
    ticks,      \* how many times the clock has advanced
    wallet,     \* one token a caller has kept, and what has happened to it since
    last,       \* the most recent call and what it returned
    inflight    \* per worker, the call it is running and how far the call has got

vars == <<users, sessions, now, tokenTTL, ticks, wallet, last, inflight>>

----------------------------------------------------------------------------
(* Bounds of the model *)

MaxTicks == 2

(* 24 * time.Hour, in seconds: the lifetime of every refresh token *)
RefreshTTL == 86400

(* Register's minimum password length *)
MinPasswordLen == 8

----------------------------------------------------------------------------
(* Inputs *)

Emails == {"", "a@b.com", "c@d.com"}
Passwords == {"", "short", "password1"}
Usernames == {"", "alice"}
AppIds == {1, 3}

(* The tenants new users are registered under *)
RegisterAppIds == {1}

(* The app ids Logout and RefreshToken are called with: those Login is called
   with, and the id of the other tenant *)
TokenAppIds == AppIds \cup {2}

(* The access-token lifetimes the service may be configured with, in seconds *)
TTLs == {0, 1}

(* Further passwords Register is tried with: of seven, of eight and of
   seventy-three bytes *)
EdgePasswords == {"seven77", "passw0rd", "seventy-three bytes"}

(* len(password) *)
PasswordLen(p) ==
    CASE p = "" -> 0
      [] p = "short" -> 5
      [] p = "seven77" -> 7
      [] p = "passw0rd" -> 8
      [] p = "password1" -> 9
      [] p = "seventy-three bytes" -> 73

(* The clock readings at which calls are made: two consecutive seconds, then
   the seconds from a refresh lifetime after the first reading on *)
ClockAt(i) == IF i < 2 THEN i ELSE RefreshTTL + (i - 2)

(* The collaborator that fails during a call ("none": all of them work), for
   the collaborators each operation calls *)
LoginFaults == {"none", "GetUser", "App", "GenerateToken", "SaveToken"}
RegisterFaults == {"none", "GenerateFromPassword", "SaveUser"}
LogoutFaults == {"none", "App", "DeleteToken"}
RefreshTokenFaults == {"none", "App", "GetToken", "GetUserByID", "GenerateToken", "SaveToken"}

----------------------------------------------------------------------------
(* model.App and the apps table; apps are provisioned externally *)

NoApp == [Id |-> 0, Name |-> "", Secret |-> ""]

Apps == { [Id |-> 1, Name |-> "app1", Secret |-> "secret1"],
          [Id |-> 2, Name |-> "app2", Secret |-> "secret2"] }

(* Storage.App: the row with this id, or none (reported as an error) *)
App(app_id) ==
    IF \E a \in Apps : a.Id = app_id
    THEN CHOOSE a \in Apps : a.Id = app_id
    ELSE NoApp

----------------------------------------------------------------------------
(* Passwords *)

NoDigest == [alg |-> "", of |-> ""]

(* bcrypt.GenerateFromPassword: a digest only the same password matches *)
GenerateFromPassword(password) == [alg |-> "bcrypt", of |-> password]

(* bcrypt.GenerateFromPassword returns ErrPasswordTooLong: bcrypt hashes at
   most 72 bytes *)
PasswordTooLong(password) == PasswordLen(password) > 72

(* A length test that also refuses a password of exactly the minimum length *)
TooShortOffByOne(password) == PasswordLen(password) <= MinPasswordLen

(* len(password) < 8 *)
TooShort(password) == PasswordLen(password) < MinPasswordLen

(* A comparison that accepts every password *)
CompareAlwaysOk(digest, password) == TRUE

(* A comparison with its result inverted *)
CompareInverted(digest, password) ==
    ~(digest.alg = "bcrypt" /\ digest.of = password)

(* bcrypt.CompareHashAndPassword(...) == nil *)
CompareHashAndPassword(digest, password) ==
    digest.alg = "bcrypt" /\ digest.of = password

----------------------------------------------------------------------------
(* model.User and the users table *)

NoUser == [Id |-> 0, Email |-> "", Password |-> NoDigest, Username |-> "", AppId |-> 0]

(* users.email is unique *)
EmailTaken(us, email) == \E i \in 1..Len(us) : us[i].Email = email

(* A GetUser whose query lost its WHERE clause *)
GetUserAnyRow(us, email) == IF Len(us) > 0 THEN us[1] ELSE NoUser

(* Storage.GetUser: SELECT ... WHERE email = $1; nil when there is no row *)
GetUser(us, email) ==
    IF \E i \in 1..Len(us) : us[i].Email = email
    THEN us[CHOOSE i \in 1..Len(us) : us[i].Email = email]
    ELSE NoUser

(* Storage.GetUserByID: SELECT ... WHERE id = $1; nil when there is no row *)
GetUserByID(us, id) ==
    IF id \in 1..Len(us) THEN us[id] ELSE NoUser

(* A SaveUser whose error the caller drops *)
SaveUserErrDropped(us, email, fault) == FALSE

(* Storage.SaveUser returns an error: the INSERT conflicts with a row of the
   same email, or fails otherwise *)
SaveUserErr(us, email, fault) == fault = "SaveUser" \/ EmailTaken(us, email)

(* Storage.SaveUser: INSERT ... RETURNING id *)
SaveUser(us, email, digest, username, app_id) ==
    Append(us, [Id |-> Len(us) + 1, Email |-> email, Password |-> digest,
                Username |-> username, AppId |-> app_id])

----------------------------------------------------------------------------
(* The sessions table *)

UserRows(ss, user_id) == {r \in ss : r.user_id = user_id}

(* A SaveToken without its ON CONFLICT clause *)
SaveTokenInsertOnly(ss, user_id, token) ==
    ss \cup {[user_id |-> user_id, refresh_token |-> token]}

(* A SaveToken whose ON CONFLICT clause keeps the row it finds *)
SaveTokenKeepFirst(ss, user_id, token) ==
    IF UserRows(ss, user_id) # {}
    THEN ss
    ELSE ss \cup {[user_id |-> user_id, refresh_token |-> token]}

(* Storage.SaveToken: INSERT ... ON CONFLICT (user_id) DO UPDATE SET refresh_token *)
SaveToken(ss, user_id, token) ==
    IF UserRows(ss, user_id) # {}
    THEN {IF r.user_id = user_id THEN [r EXCEPT !.refresh_token = token] ELSE r : r \in ss}
    ELSE ss \cup {[user_id |-> user_id, refresh_token |-> token]}

(* A DeleteToken that reports an error when it finds no row to delete *)
NoRowIsAnError(ss, user_id) == UserRows(ss, user_id) = {}

(* Storage.DeleteToken on a working store returns an error: never, the rows
   the DELETE affected are not looked at *)
DeleteTokenRefuses(ss, user_id) == FALSE

(* A DeleteToken that deletes nothing *)
DeleteTokenNoOp(ss, user_id) == ss

(* Storage.DeleteToken: DELETE FROM sessions WHERE user_id = $1 *)
DeleteToken(ss, user_id) == {r \in ss : r.user_id # user_id}

----------------------------------------------------------------------------
(* Tokens *)

NoClaims == [user_id |-> 0, username |-> "", email |-> "", app_id |-> 0,
             exp |-> 0, purpose |-> ""]

(* The empty string, where a token is expected *)
EmptyString == [alg |-> "", claims |-> NoClaims, sig |-> ""]

(* A non-empty string that is no JWT *)
Garbage == [alg |-> "junk", claims |-> NoClaims, sig |-> ""]

(* Storage.GetToken: SELECT refresh_token ... WHERE user_id = $1; "" when there is no row *)
GetToken(ss, user_id) ==
    IF UserRows(ss, user_id) # {}
    THEN (CHOOSE r \in UserRows(ss, user_id) : TRUE).refresh_token
    ELSE EmptyString

(* jwt.MapClaims{...} of GenerateToken *)
MapClaims(app, user, exp, purpose) ==
    [user_id |-> user.Id, username |-> user.Username, email |-> user.Email,
     app_id |-> app.Id, exp |-> exp, purpose |-> purpose]

(* jwt.NewWithClaims(jwt.SigningMethodHS256, claims).SignedString(key) *)
SignedString(claims, key) == [alg |-> "HS256", claims |-> claims, sig |-> key]

(* A GenerateToken that returns its two tokens in the wrong order *)
GenerateTokenSwapped(app, user, ttl, t) ==
    [access  |-> SignedString(MapClaims(app, user, t + RefreshTTL, "refresh"), app.Secret),
     refresh |-> SignedString(MapClaims(app, user, t + ttl, "access"), app.Secret)]

(* A GenerateToken that gives the refresh token the access token's lifetime *)
GenerateTokenOneLifetime(app, user, ttl, t) ==
    [access  |-> SignedString(MapClaims(app, user, t + ttl, "access"), app.Secret),
     refresh |-> SignedString(MapClaims(app, user, t + ttl, "refresh"), app.Secret)]

(* GenerateToken at clock t: the access and the refresh token *)
GenerateToken(app, user, ttl, t) ==
    [access  |-> SignedString(MapClaims(app, user, t + ttl, "access"), app.Secret),
     refresh |-> SignedString(MapClaims(app, user, t + RefreshTTL, "refresh"), app.Secret)]

(* A ParseToken that still accepts a token in the second of its exp *)
ParseTokenUntilExp(token, app, t) ==
    /\ token.alg = "HS256"
    /\ token.sig = app.Secret
    /\ t <= token.claims.exp

(* A ParseToken that does not verify the signature *)
ParseTokenAnyKey(token, app, t) == token.alg = "HS256" /\ t < token.claims.exp

(* A ParseToken that does not look at exp *)
ParseTokenIgnoringExp(token, app, t) == token.alg = "HS256" /\ token.sig = app.Secret

(* ParseToken at clock t returns no error and token.Valid: a JWT signed with
   the app's secret whose exp is still ahead *)
ParseToken(token, app, t) ==
    /\ token.alg = "HS256"
    /\ token.sig = app.Secret
    /\ t < token.claims.exp

(* The user_id of a token whose user_id claim is missing or is no number *)
NotANumber == -1

(* claims["user_id"].(float64) *)
HasUserID(claims) == claims.user_id # NotANumber

(* A purpose check that lets every purpose through *)
AnyPurpose(claims) == FALSE

(* claims["purpose"] != "refresh" *)
WrongPurpose(claims) == claims.purpose # "refresh"

(* dbToken == "" || dbToken != providedToken *)
Revoked(dbToken, providedToken) ==
    dbToken = EmptyString \/ dbToken # providedToken

(* A caller that ignores the error a collaborator returns *)
ErrorIgnored(fault, call) == FALSE

(* err != nil after the call to a collaborator *)
Failed(fault, call) == fault = call

----------------------------------------------------------------------------
(* A call's outcome: what it returns, the collaborator calls it made in order,
   and the store it leaves.  st is the store the call runs on, t its clock. *)

Store(us, ss) == [users |-> us, sessions |-> ss]

Ret(ok, access, refresh, user_id, err, calls, us, ss) ==
    [ok |-> ok, access |-> access, refresh |-> refresh, user_id |-> user_id,
     err |-> err, calls |-> calls, users |-> us, sessions |-> ss]

(* A failure that ends every session when the error is RevokedToken *)
FailEndingSessions(st, err, calls) ==
    Ret(FALSE, EmptyString, EmptyString, 0, err, calls, st.users,
        IF err = "RevokedToken" THEN {} ELSE st.sessions)

(* A call returns without success: nothing returned, nothing written *)
Fail(st, err, calls) ==
    Ret(FALSE, EmptyString, EmptyString, 0, err, calls, st.users, st.sessions)

(* A Login that looks the app up before the user *)
LoginAppFirst(st, t, email, password, app_id, fault) ==
    IF email = "" \/ password = "" THEN Fail(st, "ValidationError", <<>>)
    ELSE IF Failed(fault, "App") THEN Fail(st, "StorageError", <<"App">>)
    ELSE LET app == App(app_id) IN
    IF app = NoApp THEN Fail(st, "NotFound", <<"App">>)
    ELSE IF Failed(fault, "GetUser") THEN Fail(st, "StorageError", <<"App", "GetUser">>)
    ELSE LET user == GetUser(st.users, email) IN
    IF user = NoUser THEN Fail(st, "none", <<"App", "GetUser">>)
    ELSE IF ~CompareHashAndPassword(user.Password, password)
    THEN Fail(st, "InvalidCredentials", <<"App", "GetUser", "CompareHashAndPassword">>)
    ELSE IF Failed(fault, "GenerateToken")
    THEN Fail(st, "SigningError",
              <<"App", "GetUser", "CompareHashAndPassword", "GenerateToken">>)
    ELSE LET pair == GenerateToken(app, user, tokenTTL, t) IN
    IF Failed(fault, "SaveToken")
    THEN Fail(st, "StorageError",
              <<"App", "GetUser", "CompareHashAndPassword", "GenerateToken", "SaveToken">>)
    ELSE Ret(TRUE, pair.access, pair.refresh, user.Id, "none",
             <<"App", "GetUser", "CompareHashAndPassword", "GenerateToken", "SaveToken">>,
             st.users, SaveToken(st.sessions, user.Id, pair.refresh))

(* Auth.Login *)
Login(st, t, email, password, app_id, fault) ==
    IF email = "" \/ password = "" THEN Fail(st, "ValidationError", <<>>)
    ELSE IF Failed(fault, "GetUser") THEN Fail(st, "StorageError", <<"GetUser">>)
    ELSE LET user == GetUser(st.users, email) IN
    IF user = NoUser THEN Fail(st, "none", <<"GetUser">>)
    ELSE IF ~CompareHashAndPassword(user.Password, password)
    THEN Fail(st, "InvalidCredentials", <<"GetUser", "CompareHashAndPassword">>)
    ELSE IF Failed(fault, "App")
    THEN Fail(st, "StorageError", <<"GetUser", "CompareHashAndPassword", "App">>)
    ELSE LET app == App(app_id) IN
    IF app = NoApp
    THEN Fail(st, "NotFound", <<"GetUser", "CompareHashAndPassword", "App">>)
    ELSE IF Failed(fault, "GenerateToken")
    THEN Fail(st, "SigningError",
              <<"GetUser", "CompareHashAndPassword", "App", "GenerateToken">>)
    ELSE LET pair == GenerateToken(app, user, tokenTTL, t) IN
    IF Failed(fault, "SaveToken")
    THEN Fail(st, "StorageError",
              <<"GetUser", "CompareHashAndPassword", "App", "GenerateToken", "SaveToken">>)
    ELSE Ret(TRUE, pair.access, pair.refresh, user.Id, "none",
             <<"GetUser", "CompareHashAndPassword", "App", "GenerateToken", "SaveToken">>,
             st.users, SaveToken(st.sessions, user.Id, pair.refresh))

(* Auth.Register *)
Register(st, t, email, password, username, app_id, fault) ==
    IF email = "" \/ password = "" \/ username = "" THEN Fail(st, "ValidationError", <<>>)
    ELSE IF TooShort(password) THEN Fail(st, "ValidationError", <<>>)
    ELSE IF Failed(fault, "GenerateFromPassword") \/ PasswordTooLong(password)
    THEN Fail(st, "HashError", <<"GenerateFromPassword">>)
    ELSE IF SaveUserErr(st.users, email, fault)
    THEN Fail(st, "StorageError", <<"GenerateFromPassword", "SaveUser">>)
    ELSE Ret(TRUE, EmptyString, EmptyString, Len(st.users) + 1, "none",
             <<"GenerateFromPassword", "SaveUser">>,
             SaveUser(st.users, email, GenerateFromPassword(password), username, app_id),
             st.sessions)

(* Auth.Logout *)
Logout(st, t, providedToken, app_id, fault) ==
    IF Failed(fault, "App") THEN Fail(st, "StorageError", <<"App">>)
    ELSE LET app == App(app_id) IN
    IF app = NoApp THEN Fail(st, "NotFound", <<"App">>)
    ELSE IF ~ParseToken(providedToken, app, t)
    THEN Fail(st, "InvalidToken", <<"App", "ParseToken">>)
    ELSE IF ~HasUserID(providedToken.claims)
    THEN Fail(st, "InvalidToken", <<"App", "ParseToken">>)
    ELSE LET userID == providedToken.claims.user_id IN
    IF Failed(fault, "DeleteToken") \/ DeleteTokenRefuses(st.sessions, userID)
    THEN Fail(st, "StorageError", <<"App", "ParseToken", "DeleteToken">>)
    ELSE Ret(TRUE, EmptyString, EmptyString, userID, "none",
             <<"App", "ParseToken", "DeleteToken">>,
             st.users, DeleteToken(st.sessions, userID))

(* A RefreshToken that loads the user before it compares the token with the
   stored one *)
RefreshTokenUserFirst(st, t, providedToken, app_id, fault) ==
    IF Failed(fault, "App") THEN Fail(st, "StorageError", <<"App">>)
    ELSE LET app == App(app_id) IN
    IF app = NoApp THEN Fail(st, "NotFound", <<"App">>)
    ELSE IF ~ParseToken(providedToken, app, t)
    THEN Fail(st, "InvalidToken", <<"App", "ParseToken">>)
    ELSE IF ~HasUserID(providedToken.claims)
    THEN Fail(st, "InvalidToken", <<"App", "ParseToken">>)
    ELSE LET claims == providedToken.claims
             userID == claims.user_id IN
    IF WrongPurpose(claims) THEN Fail(st, "WrongTokenPurpose", <<"App", "ParseToken">>)
    ELSE IF Failed(fault, "GetUserByID")
    THEN Fail(st, "StorageError", <<"App", "ParseToken", "GetUserByID">>)
    ELSE LET user == GetUserByID(st.users, userID) IN
    IF user = NoUser
    THEN Fail(st, "NotFound", <<"App", "ParseToken", "GetUserByID">>)
    ELSE IF Failed(fault, "GetToken")
    THEN Fail(st, "StorageError", <<"App", "ParseToken", "GetUserByID", "GetToken">>)
    ELSE IF Revoked(GetToken(st.sessions, userID), providedToken)
    THEN Fail(st, "RevokedToken", <<"App", "ParseToken", "GetUserByID", "GetToken">>)
    ELSE IF Failed(fault, "GenerateToken")
    THEN Fail(st, "SigningError",
              <<"App", "ParseToken", "GetUserByID", "GetToken", "GenerateToken">>)
    ELSE LET pair == GenerateToken(app, user, tokenTTL, t) IN
    IF Failed(fault, "SaveToken")
    THEN Fail(st, "StorageError",
              <<"App", "ParseToken", "GetUserByID", "GetToken", "GenerateToken", "SaveToken">>)
    ELSE Ret(TRUE, pair.access, pair.refresh, user.Id, "none",
             <<"App", "ParseToken", "GetUserByID", "GetToken", "GenerateToken", "SaveToken">>,
             st.users, SaveToken(st.sessions, user.Id, pair.refresh))

(* Auth.RefreshToken *)
RefreshToken(st, t, providedToken, app_id, fault) ==
    IF Failed(fault, "App") THEN Fail(st, "StorageError", <<"App">>)
    ELSE LET app == App(app_id) IN
    IF app = NoApp THEN Fail(st, "NotFound", <<"App">>)
    ELSE IF ~ParseToken(providedToken, app, t)
    THEN Fail(st, "InvalidToken", <<"App", "ParseToken">>)
    ELSE IF ~HasUserID(providedToken.claims)
    THEN Fail(st, "InvalidToken", <<"App", "ParseToken">>)
    ELSE LET claims == providedToken.claims
             userID == claims.user_id IN
    IF WrongPurpose(claims) THEN Fail(st, "WrongTokenPurpose", <<"App", "ParseToken">>)
    ELSE IF Failed(fault, "GetToken")
    THEN Fail(st, "StorageError", <<"App", "ParseToken", "GetToken">>)
    ELSE IF Revoked(GetToken(st.sessions, userID), providedToken)
    THEN Fail(st, "RevokedToken", <<"App", "ParseToken", "GetToken">>)
    ELSE IF Failed(fault, "GetUserByID")
    THEN Fail(st, "StorageError", <<"App", "ParseToken", "GetToken", "GetUserByID">>)
    ELSE LET user == GetUserByID(st.users, userID) IN
    IF user = NoUser
    THEN Fail(st, "NotFound", <<"App", "ParseToken", "GetToken", "GetUserByID">>)
    ELSE IF Failed(fault, "GenerateToken")
    THEN Fail(st, "SigningError",
              <<"App", "ParseToken", "GetToken", "GetUserByID", "GenerateToken">>)
    ELSE LET pair == GenerateToken(app, user, tokenTTL, t) IN
    IF Failed(fault, "SaveToken")
    THEN Fail(st, "StorageError",
              <<"App", "ParseToken", "GetToken", "GetUserByID", "GenerateToken", "SaveToken">>)
    ELSE Ret(TRUE, pair.access, pair.refresh, user.Id, "none",
             <<"App", "ParseToken", "GetToken", "GetUserByID", "GenerateToken", "SaveToken">>,
             st.users, SaveToken(st.sessions, user.Id, pair.refresh))

----------------------------------------------------------------------------
(* The gRPC handlers: the status code of the response.  A handler checks the
   required fields of the request, calls the operation and reports every
   error the operation returns as Internal. *)

StatusOf(r) == IF r.err # "none" THEN "Internal" ELSE "OK"

(* Server.Login *)
ServerLogin(st, t, email, password, app_id, fault) ==
    IF email = "" \/ password = "" \/ app_id = 0 THEN "InvalidArgument"
    ELSE StatusOf(Login(st, t, email, password, app_id, fault))

(* Server.Register *)
ServerRegister(st, t, email, password, username, app_id, fault) ==
    IF email = "" \/ password = "" \/ app_id = 0 THEN "InvalidArgument"
    ELSE StatusOf(Register(st, t, email, password, username, app_id, fault))

(* Server.Logout *)
ServerLogout(st, t, token, app_id, fault) ==
    IF token = EmptyString \/ app_id = 0 THEN "InvalidArgument"
    ELSE StatusOf(Logout(st, t, token, app_id, fault))

(* Server.RefreshToken *)
ServerRefreshToken(st, t, token, app_id, fault) ==
    IF token = EmptyString \/ app_id = 0 THEN "InvalidArgument"
    ELSE StatusOf(RefreshToken(st, t, token, app_id, fault))

----------------------------------------------------------------------------
(* The state machine *)

Cur == Store(users, sessions)

NoCall ==
    [op |-> "none", fault |-> "none", kept |-> FALSE, hadRow |-> FALSE, ok |-> FALSE,
     access |-> EmptyString, refresh |-> EmptyString, err |-> "none"]

(* The record of a call: the collaborator that failed in it, whether it was
   made with the kept token, whether the user it is about had a session row
   before it, and what it returned *)
Call(op, token, about, fault, r) ==
    [op |-> op, fault |-> fault, kept |-> token = wallet.token,
     hadRow |-> UserRows(sessions, about) # {},
     ok |-> r.ok, access |-> r.access, refresh |-> r.refresh, err |-> r.err]

(* The kept token: exchanged, a successful RefreshToken has consumed it;
   loggedOut, the app id of a successful Logout with it when its user has not
   logged in since, and 0 otherwise *)
NoWallet == [token |-> EmptyString, exchanged |-> FALSE, loggedOut |-> 0]

Keep(w, token) ==
    IF token = w.token THEN w ELSE [NoWallet EXCEPT !.token = token]

StoredTokens == {r.refresh_token : r \in sessions}

(* The workers the transport runs calls on *)
Procs == {1, 2}

(* A worker that runs no call *)
Idle ==
    [op |-> "none", pc |-> "idle", email |-> "", password |-> "", username |-> "",
     app_id |-> 0, user_id |-> 0, token |-> EmptyString,
     access |-> EmptyString, refresh |-> EmptyString,
     ok |-> FALSE, err |-> "none", overlapped |-> FALSE, latest |-> FALSE]

(* The tokens a caller can present: the kept one, the live ones, or junk *)
Presentable == {wallet.token, Garbage} \cup StoredTokens

Init ==
    /\ users = <<>>
    /\ sessions = {}
    /\ now = 0
    /\ tokenTTL \in TTLs
    /\ ticks = 0
    /\ wallet = NoWallet
    /\ last = NoCall
    /\ inflight = [p \in Procs |-> Idle]

(* Time passes between calls *)
Tick ==
    /\ ticks < MaxTicks
    /\ ticks' = ticks + 1
    /\ now' = ClockAt(ticks + 1)
    /\ UNCHANGED <<users, sessions, tokenTTL, wallet, last, inflight>>

LoginStep(email, password, app_id, fault) ==
    LET r == Login(Cur, now, email, password, app_id, fault)
        w == IF r.ok /\ wallet.token.claims.user_id = r.user_id
             THEN [wallet EXCEPT !.loggedOut = 0]
             ELSE wallet
    IN
    /\ users' = r.users
    /\ sessions' = r.sessions
    /\ wallet' \in IF r.ok THEN {w, Keep(w, r.access), Keep(w, r.refresh)} ELSE {w}
    /\ last' = Call("Login", Garbage, GetUser(users, email).Id, fault, r)
    /\ UNCHANGED <<now, tokenTTL, ticks, inflight>>

RegisterStep(email, password, username, app_id, fault) ==
    LET r == Register(Cur, now, email, password, username, app_id, fault) IN
    /\ users' = r.users
    /\ sessions' = r.sessions
    /\ last' = Call("Register", Garbage, 0, fault, r)
    /\ UNCHANGED <<now, tokenTTL, ticks, wallet, inflight>>

LogoutStep(token, app_id, fault) ==
    LET r == Logout(Cur, now, token, app_id, fault) IN
    /\ users' = r.users
    /\ sessions' = r.sessions
    /\ wallet' \in IF r.ok
                   THEN {IF wallet.token = token
                         THEN [wallet EXCEPT !.loggedOut = app_id] ELSE wallet,
                         [Keep(wallet, token) EXCEPT !.loggedOut = app_id]}
                   ELSE {wallet}
    /\ last' = Call("Logout", token, token.claims.user_id, fault, r)
    /\ UNCHANGED <<now, tokenTTL, ticks, inflight>>

RefreshTokenStep(token, app_id, fault) ==
    LET r == RefreshToken(Cur, now, token, app_id, fault)
        w == IF r.ok /\ wallet.token = token
             THEN [wallet EXCEPT !.exchanged = TRUE] ELSE wallet
        old == [Keep(w, token) EXCEPT !.exchanged = TRUE]
    IN
    /\ users' = r.users
    /\ sessions' = r.sessions
    /\ wallet' \in IF r.ok
                   THEN {w, old, Keep(old, r.access), Keep(old, r.refresh)}
                   ELSE {w}
    /\ last' = Call("RefreshToken", token, token.claims.user_id, fault, r)
    /\ UNCHANGED <<now, tokenTTL, ticks, inflight>>

(* Calls run one at a time, every collaborator working *)
DoLogin == \E e \in Emails, p \in Passwords, a \in AppIds : LoginStep(e, p, a, "none")
DoRegister ==
    \E e \in Emails, p \in Passwords, u \in Usernames, a \in RegisterAppIds :
        RegisterStep(e, p, u, a, "none")
DoLogout == \E k \in Presentable, a \in TokenAppIds : LogoutStep(k, a, "none")
DoRefreshToken == \E k \in Presentable, a \in TokenAppIds : RefreshTokenStep(k, a, "none")

Next == Tick \/ DoLogin \/ DoRegister \/ DoLogout \/ DoRefreshToken

Spec == Init /\ [][Next]_vars

(* Calls in which a collaborator may fail.  Empty arguments and unknown app
   ids are rejected before anything is written or issued, and leave the store
   as it is; here the calls are drawn from the rest. *)
ExistingAppIds == {a \in AppIds : App(a) # NoApp}

TryLogin ==
    \E e \in Emails \ {""}, p \in Passwords \ {""}, a \in ExistingAppIds, f \in LoginFaults :
        LoginStep(e, p, a, f)
TryRegister ==
    \E e \in Emails \ {""}, p \in Passwords \ {""}, u \in Usernames \ {""},
       a \in RegisterAppIds, f \in RegisterFaults : RegisterStep(e, p, u, a, f)
TryLogout ==
    \E k \in Presentable, a \in ExistingAppIds, f \in LogoutFaults : LogoutStep(k, a, f)
TryRefreshToken ==
    \E k \in Presentable, a \in ExistingAppIds, f \in RefreshTokenFaults :
        RefreshTokenStep(k, a, f)

NextFault == Tick \/ TryLogin \/ TryRegister \/ TryLogout \/ TryRefreshToken

(* How a call handles a failing collaborator does not depend on the access
   TTL: the service starts configured with the longest of them *)
InitFault == Init /\ \A ttl \in TTLs : ttl <= tokenTTL

SpecFault == InitFault /\ [][NextFault]_vars

----------------------------------------------------------------------------
(* Concurrent calls.  The transport runs each call on a worker of its own;
   the calls share nothing but the store and the clock, and every store call
   is one atomic statement.  A call advances one collaborator call at a
   time. *)

ConcEmails == {"a@b.com", "c@d.com"}
ConcPasswords == {"password1"}
ConcUsernames == {"alice"}
ConcAppIds == {1}

Other(p) == CHOOSE q \in Procs : q # p

Running(c) == c.pc \notin {"idle", "done"}

(* Worker p takes a new call c; it overlaps the call the other worker is
   running, if any *)
Start(p, c) ==
    LET q == Other(p) IN
    /\ ~Running(inflight[p])
    /\ inflight' = [inflight EXCEPT
                        ![p] = [c EXCEPT !.overlapped = Running(inflight[q])],
                        ![q] = [@ EXCEPT !.overlapped = @ \/ (Running(inflight[q]) /\ Running(c))]]

(* The call of worker p returns *)
Done(c, ok, err) == [c EXCEPT !.pc = "done", !.ok = ok, !.err = err]

(* Auth.Login is called: the check of its arguments *)
StartLogin(p, email, password, app_id) ==
    LET c == [Idle EXCEPT !.op = "Login", !.email = email, !.password = password,
                          !.app_id = app_id]
    IN
    /\ Start(p, IF email = "" \/ password = ""
                THEN Done(c, FALSE, "ValidationError")
                ELSE [c EXCEPT !.pc = "GetUser"])
    /\ UNCHANGED <<users, sessions, now, tokenTTL, ticks, wallet, last>>

(* Login: the user lookup and the password comparison *)
LoginGetUser(p) ==
    LET c == inflight[p]
        user == GetUser(users, c.email)
    IN
    /\ c.op = "Login" /\ c.pc = "GetUser"
    /\ inflight' = [inflight EXCEPT ![p] =
            IF user = NoUser THEN Done(c, FALSE, "none")
            ELSE IF ~CompareHashAndPassword(user.Password, c.password)
            THEN Done(c, FALSE, "InvalidCredentials")
            ELSE [c EXCEPT !.pc = "GenerateToken", !.user_id = user.Id]]
    /\ UNCHANGED <<users, sessions, now, tokenTTL, ticks, wallet, last>>

(* Login: the app lookup and the signing of the pair, at the clock's reading *)
LoginGenerateToken(p) ==
    LET c == inflight[p]
        app == App(c.app_id)
        pair == GenerateToken(app, GetUserByID(users, c.user_id), tokenTTL, now)
    IN
    /\ c.op = "Login" /\ c.pc = "GenerateToken"
    /\ inflight' = [inflight EXCEPT ![p] =
            IF app = NoApp THEN Done(c, FALSE, "NotFound")
            ELSE [c EXCEPT !.pc = "SaveToken", !.access = pair.access,
                           !.refresh = pair.refresh]]
    /\ UNCHANGED <<users, sessions, now, tokenTTL, ticks, wallet, last>>

(* Login: the session write, after which the call returns the pair; latest
   marks the call whose write to this user's session came last *)
LoginSaveToken(p) ==
    LET c == inflight[p]
        q == Other(p)
    IN
    /\ c.op = "Login" /\ c.pc = "SaveToken"
    /\ sessions' = SaveToken(sessions, c.user_id, c.refresh)
    /\ inflight' = [inflight EXCEPT
                        ![p] = [Done(c, TRUE, "none") EXCEPT !.latest = TRUE],
                        ![q] = [@ EXCEPT !.latest = @ /\ inflight[q].user_id # c.user_id]]
    /\ UNCHANGED <<users, now, tokenTTL, ticks, wallet, last>>

(* Auth.Register is called: the check of its arguments and the hashing *)
StartRegister(p, email, password, username, app_id) ==
    LET c == [Idle EXCEPT !.op = "Register", !.email = email, !.password = password,
                          !.username = username, !.app_id = app_id]
    IN
    /\ Start(p, IF email = "" \/ password = "" \/ username = "" \/ TooShort(password)
                THEN Done(c, FALSE, "ValidationError")
                ELSE IF PasswordTooLong(password) THEN Done(c, FALSE, "HashError")
                ELSE [c EXCEPT !.pc = "SaveUser"])
    /\ UNCHANGED <<users, sessions, now, tokenTTL, ticks, wallet, last>>

(* Register: the INSERT, after which the call returns *)
RegisterSaveUser(p) ==
    LET c == inflight[p]
        refused == SaveUserErr(users, c.email, "none")
    IN
    /\ c.op = "Register" /\ c.pc = "SaveUser"
    /\ users' = IF refused THEN users
                ELSE SaveUser(users, c.email, GenerateFromPassword(c.password),
                              c.username, c.app_id)
    /\ inflight' = [inflight EXCEPT ![p] =
            IF refused THEN Done(c, FALSE, "StorageError")
            ELSE [Done(c, TRUE, "none") EXCEPT !.user_id = Len(users) + 1]]
    /\ UNCHANGED <<sessions, now, tokenTTL, ticks, wallet, last>>

ConcLogin ==
    \E p \in Procs, e \in ConcEmails, pw \in ConcPasswords, a \in ConcAppIds :
        StartLogin(p, e, pw, a)
ConcRegister ==
    \E p \in Procs, e \in ConcEmails, pw \in ConcPasswords, u \in ConcUsernames,
       a \in ConcAppIds : StartRegister(p, e, pw, u, a)
ConcStep ==
    \E p \in Procs :
        LoginGetUser(p) \/ LoginGenerateToken(p) \/ LoginSaveToken(p) \/ RegisterSaveUser(p)

NextConc == Tick \/ ConcLogin \/ ConcRegister \/ ConcStep

SpecConc == InitFault /\ [][NextConc]_vars

----------------------------------------------------------------------------
(* Concurrent RefreshToken and Logout calls on sessions that Register and
   Login calls, made while no other call is in flight, have set up.  A worker
   runs its call one store access at a time; nothing orders the store
   accesses of two calls. *)

Quiet == \A p \in Procs : ~Running(inflight[p])

(* A Register call with no call in flight *)
RaceRegister ==
    \E e \in ConcEmails, pw \in ConcPasswords, u \in ConcUsernames, a \in ConcAppIds :
        LET r == Register(Cur, now, e, pw, u, a, "none") IN
        /\ Quiet
        /\ r.ok
        /\ users' = r.users
        /\ UNCHANGED <<sessions, now, tokenTTL, ticks, wallet, last, inflight>>

(* A Login call with no call in flight; it opens a new session, and the
   workers forget the calls they ran on the sessions before it *)
RaceLogin ==
    \E e \in ConcEmails, pw \in ConcPasswords, a \in ConcAppIds :
        LET r == Login(Cur, now, e, pw, a, "none") IN
        /\ Quiet
        /\ r.ok
        /\ sessions' = r.sessions
        /\ inflight' = [p \in Procs |-> Idle]
        /\ UNCHANGED <<users, now, tokenTTL, ticks, wallet, last>>

(* Auth.RefreshToken is called: the app lookup and the checks of the token
   itself *)
StartRefreshToken(p, token, app_id) ==
    LET c == [Idle EXCEPT !.op = "RefreshToken", !.token = token, !.app_id = app_id]
        app == App(app_id)
    IN
    /\ Start(p, IF app = NoApp THEN Done(c, FALSE, "NotFound")
                ELSE IF ~ParseToken(token, app, now) \/ ~HasUserID(token.claims)
                THEN Done(c, FALSE, "InvalidToken")
                ELSE IF WrongPurpose(token.claims) THEN Done(c, FALSE, "WrongTokenPurpose")
                ELSE [c EXCEPT !.pc = "GetToken", !.user_id = token.claims.user_id])
    /\ UNCHANGED <<users, sessions, now, tokenTTL, ticks, wallet, last>>

(* RefreshToken: the read of the stored token and the comparison with it *)
RefreshGetToken(p) ==
    LET c == inflight[p] IN
    /\ c.op = "RefreshToken" /\ c.pc = "GetToken"
    /\ inflight' = [inflight EXCEPT ![p] =
            IF Revoked(GetToken(sessions, c.user_id), c.token)
            THEN Done(c, FALSE, "RevokedToken")
            ELSE [c EXCEPT !.pc = "GenerateToken"]]
    /\ UNCHANGED <<users, sessions, now, tokenTTL, ticks, wallet, last>>

(* RefreshToken: the user lookup and the signing of the new pair, at the
   clock's reading *)
RefreshGenerateToken(p) ==
    LET c == inflight[p]
        user == GetUserByID(users, c.user_id)
        pair == GenerateToken(App(c.app_id), user, tokenTTL, now)
    IN
    /\ c.op = "RefreshToken" /\ c.pc = "GenerateToken"
    /\ inflight' = [inflight EXCEPT ![p] =
            IF user = NoUser THEN Done(c, FALSE, "NotFound")
            ELSE [c EXCEPT !.pc = "SaveToken", !.access = pair.access,
                           !.refresh = pair.refresh]]
    /\ UNCHANGED <<users, sessions, now, tokenTTL, ticks, wallet, last>>

(* RefreshToken: the session write, after which the call returns the pair *)
RefreshSaveToken(p) ==
    LET c == inflight[p] IN
    /\ c.op = "RefreshToken" /\ c.pc = "SaveToken"
    /\ sessions' = SaveToken(sessions, c.user_id, c.refresh)
    /\ inflight' = [inflight EXCEPT ![p] = Done(c, TRUE, "none")]
    /\ UNCHANGED <<users, now, tokenTTL, ticks, wallet, last>>

(* Auth.Logout is called: the app lookup and the checks of the token itself *)
StartLogout(p, token, app_id) ==
    LET c == [Idle EXCEPT !.op = "Logout", !.token = token, !.app_id = app_id]
        app == App(app_id)
    IN
    /\ Start(p, IF app = NoApp THEN Done(c, FALSE, "NotFound")
                ELSE IF ~ParseToken(token, app, now) \/ ~HasUserID(token.claims)
                THEN Done(c, FALSE, "InvalidToken")
                ELSE [c EXCEPT !.pc = "DeleteToken", !.user_id = token.claims.user_id])
    /\ UNCHANGED <<users, sessions, now, tokenTTL, ticks, wallet, last>>

(* Logout: the DELETE, after which the call returns *)
LogoutDeleteToken(p) ==
    LET c == inflight[p] IN
    /\ c.op = "Logout" /\ c.pc = "DeleteToken"
    /\ sessions' = DeleteToken(sessions, c.user_id)
    /\ inflight' = [inflight EXCEPT ![p] = Done(c, TRUE, "none")]
    /\ UNCHANGED <<users, now, tokenTTL, ticks, wallet, last>>

(* The tokens a caller holds: the stored ones and those a call has returned *)
Held == (StoredTokens \cup {inflight[p].refresh : p \in Procs}) \ {EmptyString}

ConcRefreshToken ==
    \E p \in Procs, k \in Held, a \in ConcAppIds : StartRefreshToken(p, k, a)
ConcLogout ==
    \E p \in Procs, k \in Held, a \in ConcAppIds : StartLogout(p, k, a)
RaceStep ==
    \E p \in Procs :
        \/ RefreshGetToken(p) \/ RefreshGenerateToken(p) \/ RefreshSaveToken(p)
        \/ LogoutDeleteToken(p)

NextRace == Tick \/ RaceRegister \/ RaceLogin \/ ConcRefreshToken \/ ConcLogout \/ RaceStep

SpecRace == InitFault /\ [][NextRace]_vars

----------------------------------------------------------------------------
(* Properties.  A call made in the current state is the operation applied to
   Cur at the clock now; a call that follows another is the operation applied
   to the store the first one leaves. *)

After(r) == Store(r.users, r.sessions)

NoTokens(r) == r.access = EmptyString /\ r.refresh = EmptyString

StoreUnchanged(st, r) == r.users = st.users /\ r.sessions = st.sessions

(* C1: rotation.  At every clock reading, the same second in which R1 was
   issued included: when RefreshToken(R1, app) succeeds and returns R2, an
   immediately following RefreshToken(R1, app) fails with RevokedToken and
   RefreshToken(R2, app) succeeds. *)
C1_Rotation ==
    \A k \in Presentable, a \in AppIds :
        LET r1 == RefreshToken(Cur, now, k, a, "none") IN
        r1.ok =>
            /\ RefreshToken(After(r1), now, k, a, "none").err = "RevokedToken"
            /\ RefreshToken(After(r1), now, r1.refresh, a, "none").ok

(* C2: permanent rejection.  A refresh token that a successful RefreshToken
   has exchanged is never accepted by RefreshToken again, whatever calls have
   run since and whichever app id it is presented with. *)
C2_PermanentRejection ==
    wallet.exchanged =>
        \A a \in AppIds : ~RefreshToken(Cur, now, wallet.token, a, "none").ok

(* C3: purpose.  RefreshToken with a token that is signed with the app's key,
   unexpired and of purpose access fails with WrongTokenPurpose, returns no
   tokens and leaves the store as it was, whether or not the user has a
   session row. *)
C3_AccessTokenRejected ==
    \A k \in Presentable, a \in AppIds :
        LET r == RefreshToken(Cur, now, k, a, "none") IN
        (App(a) # NoApp /\ ParseToken(k, App(a), now) /\ k.claims.purpose = "access") =>
            /\ r.err = "WrongTokenPurpose"
            /\ ~r.ok
            /\ NoTokens(r)
            /\ StoreUnchanged(Cur, r)

(* C3's case: a RefreshToken call made with the kept access token, whose user
   had a session row, has just been refused for its purpose *)
C3_Witness ==
    /\ last.op = "RefreshToken"
    /\ last.kept
    /\ last.err = "WrongTokenPurpose"
    /\ last.hadRow
    /\ wallet.token.claims.purpose = "access"
    /\ UserRows(sessions, wallet.token.claims.user_id) # {}

(* C4 as the specification words it, for a refresh token R: after
   Logout(R, app) has succeeded, and with no Login for R's user since,
   RefreshToken(R, app) fails with RevokedToken. *)
C4_LogoutThenRefresh ==
    (wallet.loggedOut # 0 /\ wallet.token.claims.purpose = "refresh") =>
        RefreshToken(Cur, now, wallet.token, wallet.loggedOut, "none").err = "RevokedToken"

(* C4: after Logout(R, app) has succeeded, and with no Login for R's user
   since, RefreshToken(R, app) returns no tokens; it fails with RevokedToken
   when R is a refresh token that has not expired by the time of the call,
   with InvalidToken when R has expired, and with WrongTokenPurpose when R is an
   unexpired access token. *)
C4_LogoutThenRefreshUnexpired ==
    wallet.loggedOut # 0 =>
        LET R == wallet.token
            r == RefreshToken(Cur, now, R, wallet.loggedOut, "none")
        IN
        /\ ~r.ok
        /\ NoTokens(r)
        /\ (now < R.claims.exp /\ R.claims.purpose = "refresh") => r.err = "RevokedToken"
        /\ ~(now < R.claims.exp) => r.err = "InvalidToken"
        /\ (now < R.claims.exp /\ R.claims.purpose # "refresh") => r.err = "WrongTokenPurpose"

(* C4's case: the kept refresh token was logged out, and the RefreshToken call
   made with it afterwards has just failed with RevokedToken *)
C4_Witness ==
    /\ wallet.loggedOut # 0
    /\ wallet.token.claims.purpose = "refresh"
    /\ last.op = "RefreshToken"
    /\ last.kept
    /\ last.refresh = EmptyString
    /\ last.err = "RevokedToken"
    /\ RefreshToken(Cur, now, wallet.token, wallet.loggedOut, "none").err = "RevokedToken"

(* The clock readings of a call that follows one made now *)
Later == {now, now + 1, now + RefreshTTL}

(* What C5 promises of a Login made at clock t with app id a *)
LoginIssuesPair(r, a, t) ==
    /\ r.ok
    /\ r.err = "none"
    /\ ParseToken(r.access, App(a), t)
    /\ r.access.claims.purpose = "access"
    /\ ParseToken(r.refresh, App(a), t)
    /\ r.refresh.claims.purpose = "refresh"

(* C5 as the specification words it: for every app id passed to the calls and
   every configured access TTL, when Register succeeds a following Login with
   the same email and password succeeds and returns an access and a refresh
   token that decode under the app's key. *)
C5_RegisterThenLogin ==
    \A e \in Emails, p \in Passwords, u \in Usernames, a1 \in AppIds, a2 \in AppIds, t \in Later :
        LET r1 == Register(Cur, now, e, p, u, a1, "none") IN
        r1.ok => LoginIssuesPair(Login(After(r1), t, e, p, a2, "none"), a2, t)

(* C5: when Register succeeds, with any app id, a following Login with the
   same email and password and the id of an app the store holds succeeds, and
   returns a refresh token that decodes under the app's key with purpose
   refresh and an access token of purpose access that decodes when the access
   TTL is at least one second; with an app id the store does not hold the
   Login fails with NotFound. *)
C5_RegisterThenLoginKnownApp ==
    \A e \in Emails, p \in Passwords, u \in Usernames, a1 \in AppIds, a2 \in AppIds, t \in Later :
        LET r1 == Register(Cur, now, e, p, u, a1, "none")
            r2 == Login(After(r1), t, e, p, a2, "none")
        IN
        r1.ok =>
            /\ a2 \in ExistingAppIds =>
                /\ r2.ok
                /\ r2.err = "none"
                /\ r2.access.claims.purpose = "access"
                /\ r2.access.sig = App(a2).Secret
                /\ ParseToken(r2.refresh, App(a2), t)
                /\ r2.refresh.claims.purpose = "refresh"
                /\ tokenTTL >= 1 => ParseToken(r2.access, App(a2), t)
            /\ a2 \notin ExistingAppIds => ~r2.ok /\ r2.err = "NotFound" /\ NoTokens(r2)

(* C5's case: a registered user has just logged in, under an access TTL of a
   second or more, and both tokens decode *)
C5_Witness ==
    /\ last.op = "Login"
    /\ last.ok
    /\ tokenTTL >= 1
    /\ \E i \in 1..Len(users) : users[i].Id = last.refresh.claims.user_id
    /\ \E a \in ExistingAppIds :
        /\ ParseToken(last.access, App(a), now) /\ last.access.claims.purpose = "access"
        /\ ParseToken(last.refresh, App(a), now) /\ last.refresh.claims.purpose = "refresh"

(* No user row has this email *)
UnknownEmailIn(us, e) == \A i \in 1..Len(us) : us[i].Email # e

UnknownEmail(e) == UnknownEmailIn(users, e)

(* What C6 promises of a Login: the non-error negative result, nothing written *)
NegativeResult(r) ==
    /\ ~r.ok
    /\ NoTokens(r)
    /\ r.err = "none"
    /\ StoreUnchanged(Cur, r)

(* C6 as the specification words it: Login with a non-empty email that matches
   no user returns ok=false, empty tokens and no error, and writes nothing. *)
C6_UnknownEmail ==
    \A e \in Emails \ {""}, p \in Passwords, a \in AppIds :
        UnknownEmail(e) => NegativeResult(Login(Cur, now, e, p, a, "none"))

(* C6: Login with a non-empty email that matches no user and a non-empty
   password returns ok=false, empty tokens and no error, and writes nothing;
   with an empty password it fails with ValidationError, and writes nothing. *)
C6_UnknownEmailWithPassword ==
    \A e \in Emails \ {""}, p \in Passwords, a \in AppIds :
        LET r == Login(Cur, now, e, p, a, "none") IN
        UnknownEmail(e) =>
            /\ p # "" => NegativeResult(r)
            /\ p = "" => ~r.ok /\ NoTokens(r) /\ r.err = "ValidationError" /\ StoreUnchanged(Cur, r)

(* C6's case: with users registered, a Login has just returned the non-error
   negative result *)
C6_Witness ==
    /\ last.op = "Login"
    /\ ~last.ok
    /\ last.err = "none"
    /\ last.access = EmptyString
    /\ last.refresh = EmptyString
    /\ Len(users) > 0
    /\ \E e \in Emails \ {""} : UnknownEmail(e)

(* What C7 promises of a Login *)
Refused(r) ==
    /\ ~r.ok
    /\ NoTokens(r)
    /\ r.err = "InvalidCredentials"
    /\ StoreUnchanged(Cur, r)

(* C7 as the specification words it: Login with the email of an existing user
   and a password that does not match the stored digest fails with
   InvalidCredentials, returns no tokens and leaves the sessions unchanged. *)
C7_WrongPassword ==
    \A i \in 1..Len(users), p \in Passwords, a \in AppIds :
        users[i].Password # GenerateFromPassword(p) =>
            Refused(Login(Cur, now, users[i].Email, p, a, "none"))

(* C7: Login with the email of an existing user and a non-empty password that
   does not match the stored digest fails with InvalidCredentials, returns no
   tokens and leaves the sessions unchanged; with an empty password it fails
   with ValidationError instead, and leaves the sessions unchanged too. *)
C7_WrongNonEmptyPassword ==
    \A i \in 1..Len(users), p \in Passwords, a \in AppIds :
        LET r == Login(Cur, now, users[i].Email, p, a, "none") IN
        users[i].Password # GenerateFromPassword(p) =>
            /\ p # "" => Refused(r)
            /\ p = "" => ~r.ok /\ NoTokens(r) /\ r.err = "ValidationError" /\ StoreUnchanged(Cur, r)

(* C7's case: a Login for a user who has a session has just been refused for
   its password, and the session is still there *)
C7_Witness ==
    /\ last.op = "Login"
    /\ last.err = "InvalidCredentials"
    /\ ~last.ok
    /\ last.hadRow
    /\ sessions # {}

(* The sessions table after a successful call for user uid that returned the
   refresh token R: uid's one row holds R, every other user's rows are as
   they were *)
Replaced(before, after, uid, R) ==
    /\ UserRows(after, uid) = {[user_id |-> uid, refresh_token |-> R]}
    /\ \A r \in after : r.user_id # uid => r \in before
    /\ \A r \in before : r.user_id # uid => r \in after
    /\ Cardinality(after) = Cardinality(before) + (IF UserRows(before, uid) = {} THEN 1 ELSE 0)

(* C8: in every reachable state each user has at most one session row, and a
   row holds one refresh token; a successful Login or RefreshToken leaves the
   user exactly one row, holding the token it returned, and adds no row when
   the user already had one. *)
C8_OneSessionPerUser ==
    /\ \A r1 \in sessions, r2 \in sessions : r1.user_id = r2.user_id => r1 = r2
    /\ \A r \in sessions :
        /\ r.user_id \in 1..Len(users)
        /\ r.refresh_token.alg = "HS256"
        /\ r.refresh_token.claims.purpose = "refresh"
        /\ r.refresh_token.claims.user_id = r.user_id
    /\ \A e \in Emails, p \in Passwords, a \in AppIds :
        LET r == Login(Cur, now, e, p, a, "none") IN
        r.ok => Replaced(sessions, r.sessions, r.user_id, r.refresh)
    /\ \A k \in Presentable, a \in AppIds :
        LET r == RefreshToken(Cur, now, k, a, "none") IN
        r.ok => Replaced(sessions, r.sessions, r.user_id, r.refresh)

(* C8's case: a Login or RefreshToken for a user who had a session has just
   succeeded at a later second, and the user's one row now holds the new
   token while another user's session stands *)
C8_Witness ==
    /\ last.op \in {"Login", "RefreshToken"}
    /\ last.ok
    /\ last.hadRow
    /\ UserRows(sessions, last.refresh.claims.user_id) =
           {[user_id |-> last.refresh.claims.user_id, refresh_token |-> last.refresh]}
    /\ last.refresh.claims.exp = now + RefreshTTL
    /\ now > 0
    /\ Cardinality(sessions) = 2

(* C9: a second Login logs the first session out.  For every pair of times at
   which the two logins happen: when Login returns R1 and a later Login for
   the same user returns R2, RefreshToken(R1) fails with RevokedToken and
   RefreshToken(R2) succeeds. *)
C9_SecondLoginRevokesFirst ==
    \A e \in Emails, p \in Passwords, a \in AppIds, t \in {now, now + 1} :
        LET r1 == Login(Cur, now, e, p, a, "none")
            r2 == Login(After(r1), t, e, p, a, "none")
        IN
        (r1.ok /\ r2.ok) =>
            /\ RefreshToken(After(r2), t, r1.refresh, a, "none").err = "RevokedToken"
            /\ RefreshToken(After(r2), t, r2.refresh, a, "none").ok

(* What C10 promises of a call r in which collaborator f fails, r0 being the
   same call with every collaborator working: when the call reaches f, it
   returns an error, ok=false and no tokens, leaves the store st as it was, and
   its collaborator calls are those of r0 up to the first call of f *)
Unmasked(st, r0, r, f) ==
    (\E i \in 1..Len(r0.calls) : r0.calls[i] = f) =>
        /\ ~r.ok
        /\ r.err \notin {"none", "ValidationError"}
        /\ NoTokens(r)
        /\ StoreUnchanged(st, r)
        /\ \E i \in 1..Len(r0.calls) :
            /\ r0.calls[i] = f
            /\ \A j \in 1..(i - 1) : r0.calls[j] # f
            /\ r.calls = SubSeq(r0.calls, 1, i)

(* C10: no downstream failure is masked as success.  Whenever a call reaches
   a collaborator (user lookup, app lookup, session read, write or delete,
   password hashing, token signing) that fails, the operation returns an error,
   ok=false and no tokens, leaves the store as it was, and calls nothing after
   the failed collaborator, which it has called once. *)
C10_NoMaskedFailure ==
    /\ \A e \in Emails, p \in Passwords, a \in AppIds, f \in LoginFaults \ {"none"} :
        Unmasked(Cur, Login(Cur, now, e, p, a, "none"), Login(Cur, now, e, p, a, f), f)
    /\ \A e \in Emails, p \in Passwords, u \in Usernames, a \in AppIds,
          f \in RegisterFaults \ {"none"} :
        Unmasked(Cur, Register(Cur, now, e, p, u, a, "none"),
                 Register(Cur, now, e, p, u, a, f), f)
    /\ \A k \in Presentable, a \in AppIds, f \in LogoutFaults \ {"none"} :
        Unmasked(Cur, Logout(Cur, now, k, a, "none"), Logout(Cur, now, k, a, f), f)
    /\ \A k \in Presentable, a \in AppIds, f \in RefreshTokenFaults \ {"none"} :
        Unmasked(Cur, RefreshToken(Cur, now, k, a, "none"),
                 RefreshToken(Cur, now, k, a, f), f)

(* C10's case: a Login or RefreshToken for a user with a session has just
   signed a pair and failed to write the session; it returned an error and no
   tokens, and the session row still holds a token that RefreshToken accepts *)
C10_Witness ==
    /\ last.op \in {"Login", "RefreshToken"}
    /\ last.fault = "SaveToken"
    /\ last.hadRow
    /\ ~last.ok
    /\ last.err = "StorageError"
    /\ last.access = EmptyString
    /\ last.refresh = EmptyString
    /\ \E k \in StoredTokens, a \in AppIds : RefreshToken(Cur, now, k, a, "none").ok

(* The passwords Register is tried with *)
RegisterPasswords == Passwords \cup EdgePasswords

(* One of Register's arguments is empty, or the password has fewer than
   MinPasswordLen bytes *)
InvalidRegistration(e, p, u) == e = "" \/ p = "" \/ u = "" \/ PasswordLen(p) < MinPasswordLen

(* The row Register persists *)
NewUser(us, e, p, u, a) ==
    [Id |-> Len(us) + 1, Email |-> e, Password |-> GenerateFromPassword(p),
     Username |-> u, AppId |-> a]

(* C11: Register fails with ValidationError, calling no collaborator and
   persisting nothing, whenever email, password or username is empty or the
   password is shorter than 8 bytes; otherwise it does not fail with
   ValidationError, and when the store accepts the row (SaveUser is called and
   returns no error) it returns ok=true with the id of the new user, whose row
   is the one appended. *)
C11_RegisterValidation ==
    \A e \in Emails, p \in RegisterPasswords, u \in Usernames, a \in AppIds, f \in RegisterFaults :
        LET r == Register(Cur, now, e, p, u, a, f)
            offered == \E i \in 1..Len(r.calls) : r.calls[i] = "SaveUser"
        IN
        /\ InvalidRegistration(e, p, u) =>
            /\ ~r.ok
            /\ r.err = "ValidationError"
            /\ r.user_id = 0
            /\ r.calls = <<>>
            /\ StoreUnchanged(Cur, r)
        /\ ~InvalidRegistration(e, p, u) =>
            /\ r.err # "ValidationError"
            /\ (offered /\ f # "SaveUser" /\ UnknownEmailIn(users, e)) =>
                /\ r.ok
                /\ r.err = "none"
                /\ r.user_id = Len(users) + 1
                /\ r.users = Append(users, NewUser(users, e, p, u, a))
                /\ r.sessions = sessions
            /\ ~r.ok => r.user_id = 0 /\ StoreUnchanged(Cur, r)

(* C11's case: with one user registered, a Register with an invalid argument
   has been refused, and a Register of a password of exactly 8 bytes would
   succeed *)
C11_Witness ==
    /\ last.op = "Register"
    /\ last.err = "ValidationError"
    /\ Len(users) = 1
    /\ \E e \in Emails :
        /\ Register(Cur, now, e, "passw0rd", "alice", 1, "none").ok
        /\ Register(Cur, now, e, "seven77", "alice", 1, "none").err = "ValidationError"

(* Both workers have returned from calls of operation op that ran at the same
   time *)
BothReturned(op) ==
    \A p \in Procs :
        inflight[p].op = op /\ inflight[p].pc = "done" /\ inflight[p].overlapped

(* Of two Register calls with the same email that ran at the same time at
   most one has succeeded, the other failing with StorageError *)
OneRegistrationWins ==
    (BothReturned("Register") /\ inflight[1].email = inflight[2].email) =>
        /\ ~(inflight[1].ok /\ inflight[2].ok)
        /\ \A p \in Procs : ~inflight[p].ok => inflight[p].err = "StorageError"

(* C12 as the specification words it: emails stay unique.  Register with an
   email that belongs to a user fails with StorageError and leaves the users
   unchanged, and of two concurrent Register calls with the same email at most
   one succeeds. *)
C12_DuplicateEmail ==
    /\ \A i \in 1..Len(users), p \in RegisterPasswords, u \in Usernames, a \in AppIds :
        LET r == Register(Cur, now, users[i].Email, p, u, a, "none") IN
        ~r.ok /\ r.err = "StorageError" /\ StoreUnchanged(Cur, r)
    /\ OneRegistrationWins

(* C12: emails stay unique.  No two user rows hold the same email.  Register
   with an email that a user row holds never succeeds and leaves the users and
   the sessions as they were: it fails with StorageError when its arguments
   are non-empty and its password has 8 to 72 bytes, with ValidationError when
   an argument is empty or the password is shorter, and with the hashing error
   when the password is longer.  Of two Register calls with the same email
   that ran at the same time at most one has succeeded, the other failing with
   StorageError. *)
C12_EmailsUnique ==
    /\ \A i \in 1..Len(users), j \in 1..Len(users) :
        users[i].Email = users[j].Email => i = j
    /\ \A i \in 1..Len(users), p \in RegisterPasswords, u \in Usernames, a \in AppIds :
        LET r == Register(Cur, now, users[i].Email, p, u, a, "none") IN
        /\ ~r.ok /\ r.user_id = 0 /\ StoreUnchanged(Cur, r)
        /\ r.err = IF InvalidRegistration(users[i].Email, p, u) THEN "ValidationError"
                   ELSE IF PasswordLen(p) > 72 THEN "HashError"
                   ELSE "StorageError"
    /\ OneRegistrationWins

(* C12's case: two Register calls with the same email have run at the same
   time, both reaching the INSERT; one has succeeded, the other has failed
   with StorageError, and one row holds the email *)
C12_Witness ==
    /\ BothReturned("Register")
    /\ inflight[1].email = inflight[2].email
    /\ \E p \in Procs :
        /\ inflight[p].ok
        /\ ~inflight[Other(p)].ok
        /\ inflight[Other(p)].err = "StorageError"
        /\ users[inflight[p].user_id].Email = inflight[p].email
    /\ Cardinality({i \in 1..Len(users) : users[i].Email = inflight[1].email}) = 1

(* C13: Logout is idempotent on the store.  Logout with a token that is signed
   with the app's key, unexpired and names a user succeeds, also when the user
   has no session row, and then changes nothing; a second Logout with the same
   token right after the first (in the same second, or in the next while the
   token is unexpired) succeeds too and leaves the store as the first left it,
   the user without a session row. *)
C13_LogoutIdempotent ==
    \A k \in Presentable, a \in ExistingAppIds, t \in {now, now + 1} :
        LET r1 == Logout(Cur, now, k, a, "none")
            r2 == Logout(After(r1), t, k, a, "none")
        IN
        (ParseToken(k, App(a), now) /\ HasUserID(k.claims)) =>
            /\ r1.ok /\ r1.err = "none"
            /\ UserRows(sessions, k.claims.user_id) = {} => StoreUnchanged(Cur, r1)
            /\ UserRows(r1.sessions, k.claims.user_id) = {}
            /\ ParseToken(k, App(a), t) =>
                /\ r2.ok /\ r2.err = "none"
                /\ StoreUnchanged(After(r1), r2)

(* C13's case: a Logout with the kept token, whose user had no session row
   left, has just succeeded, while another user's session stands *)
C13_Witness ==
    /\ last.op = "Logout"
    /\ last.kept
    /\ last.ok
    /\ ~last.hadRow
    /\ wallet.loggedOut # 0
    /\ UserRows(sessions, wallet.token.claims.user_id) = {}
    /\ sessions # {}

(* The token is a JWT signed with the app's secret that carries a user_id *)
SignedFor(k, a) == k.alg = "HS256" /\ k.sig = App(a).Secret /\ HasUserID(k.claims)

(* C14 as the specification words it: Logout deletes the session of the user
   named in the token for any token that is correctly signed with the app's
   secret and carries a user_id, be it an access token, an old refresh token
   or the current one. *)
C14_AnySignedTokenLogsOut ==
    \A k \in Presentable, a \in ExistingAppIds :
        LET r == Logout(Cur, now, k, a, "none") IN
        SignedFor(k, a) => r.ok /\ UserRows(r.sessions, k.claims.user_id) = {}

(* C14: for any token that is correctly signed with the app's secret, carries
   a user_id and has not expired, whatever its purpose and whether or not it
   equals the stored session token, Logout succeeds and deletes the session
   row of the user named in the token, leaving the other rows; once the token
   has expired Logout fails with InvalidToken and the session stays. *)
C14_UnexpiredSignedTokenLogsOut ==
    \A k \in Presentable, a \in ExistingAppIds :
        LET r == Logout(Cur, now, k, a, "none") IN
        SignedFor(k, a) =>
            /\ now < k.claims.exp =>
                /\ r.ok /\ r.err = "none"
                /\ r.sessions = {row \in sessions : row.user_id # k.claims.user_id}
                /\ r.users = users
            /\ ~(now < k.claims.exp) =>
                ~r.ok /\ r.err = "InvalidToken" /\ StoreUnchanged(Cur, r)

(* C14's case: a Logout with the kept token, which is an access token or a
   refresh token already exchanged, has just deleted its user's session row *)
C14_Witness ==
    /\ last.op = "Logout"
    /\ last.kept
    /\ last.ok
    /\ last.hadRow
    /\ wallet.token.claims.purpose = "access" \/ wallet.exchanged
    /\ UserRows(sessions, wallet.token.claims.user_id) = {}

(* Access TTLs GenerateToken is tried with, in seconds: the configured ones,
   an hour, and two days *)
AccessTTLs == TTLs \cup {3600, 2 * RefreshTTL}

(* What C15 promises of a pair issued at clock t for app, user and access TTL *)
PairFor(access, refresh, app, user, ttl, t) ==
    /\ access.claims = [user_id |-> user.Id, username |-> user.Username,
                        email |-> user.Email, app_id |-> app.Id,
                        exp |-> t + ttl, purpose |-> "access"]
    /\ refresh.claims = [user_id |-> user.Id, username |-> user.Username,
                         email |-> user.Email, app_id |-> app.Id,
                         exp |-> t + RefreshTTL, purpose |-> "refresh"]
    /\ access.sig = app.Secret /\ refresh.sig = app.Secret
    /\ access.alg = "HS256" /\ refresh.alg = "HS256"

(* C15: every token pair issued at time t for an app, a user and an access TTL
   carries the same user_id, username, email and app_id in both tokens; the
   access token has purpose access and exp = t + access TTL, the refresh token
   purpose refresh and exp = t + 24 hours whatever the access TTL is.  This
   holds of the pairs Login and RefreshToken return, which are issued for the
   user the call is about, the app it names and the configured TTL. *)
C15_TokenPairClaims ==
    /\ \A i \in 1..Len(users), app \in Apps, ttl \in AccessTTLs, t \in Later :
        LET pair == GenerateToken(app, users[i], ttl, t) IN
        PairFor(pair.access, pair.refresh, app, users[i], ttl, t)
    /\ \A e \in Emails, p \in Passwords, a \in AppIds :
        LET r == Login(Cur, now, e, p, a, "none") IN
        r.ok => PairFor(r.access, r.refresh, App(a), GetUserByID(users, r.user_id), tokenTTL, now)
                /\ GetUserByID(users, r.user_id).Email = e
    /\ \A k \in Presentable, a \in AppIds :
        LET r == RefreshToken(Cur, now, k, a, "none") IN
        r.ok => PairFor(r.access, r.refresh, App(a), GetUserByID(users, k.claims.user_id),
                        tokenTTL, now)

(* C15's case: a pair has just been issued, at a clock reading other than the
   first and under an access TTL of zero, with the refresh token expiring 24
   hours later all the same *)
C15_Witness ==
    /\ last.op \in {"Login", "RefreshToken"}
    /\ last.ok
    /\ now > 0
    /\ tokenTTL = 0
    /\ last.access.claims.exp = now
    /\ last.refresh.claims.exp = now + RefreshTTL
    /\ last.access.claims.user_id = last.refresh.claims.user_id

(* The app ids a request can carry: the ones above, and the zero of a request
   that sets none *)
RequestAppIds == AppIds \cup {0}

(* C16: at the transport boundary a Register request with an empty username is
   rejected in the client-error category, like one with an empty email, an
   empty password or a zero app id; and the server-error category is reported
   only for requests that have all their required fields. *)
C16_EmptyUsernameIsClientError ==
    \A e \in Emails, p \in Passwords, u \in Usernames, a \in RequestAppIds :
        LET code == ServerRegister(Cur, now, e, p, u, a, "none") IN
        /\ (e = "" \/ p = "" \/ u = "" \/ a = 0) => code = "InvalidArgument"
        /\ code = "Internal" => (e # "" /\ p # "" /\ u # "" /\ a # 0)

(* C17: under any interleaving of two concurrent successful Login calls for
   the same user, when both have returned the user has exactly one session
   row, its token is the refresh token returned by the call whose session
   write came last, and the other call's refresh token, still unexpired, is
   rejected by RefreshToken with RevokedToken. *)
C17_ConcurrentLogins ==
    (/\ BothReturned("Login")
     /\ inflight[1].ok /\ inflight[2].ok
     /\ inflight[1].user_id = inflight[2].user_id) =>
        \E p \in Procs :
            LET won == inflight[p]
                lost == inflight[Other(p)]
            IN
            /\ won.latest /\ ~lost.latest
            /\ UserRows(sessions, won.user_id) =
                   {[user_id |-> won.user_id, refresh_token |-> won.refresh]}
            /\ now < lost.refresh.claims.exp =>
                RefreshToken(Cur, now, lost.refresh, lost.app_id, "none").err = "RevokedToken"

(* The app ids of a request that name no app *)
UnknownAppIds == {a \in RequestAppIds : App(a) = NoApp}

(* Some user row has this email and the digest of this password *)
PasswordMatches(us, e, p) ==
    \E i \in 1..Len(us) : us[i].Email = e /\ us[i].Password = GenerateFromPassword(p)

(* C18: Login applies its checks in the order empty email or password, user
   lookup, password verification, app lookup.  With an unknown app id it
   fails with ValidationError before any store access when the email or the
   password is empty; otherwise it returns the non-error negative result for
   an unknown email after the user lookup alone, InvalidCredentials for a
   wrong password without looking the app up, and NotFound exactly when the
   email exists and the password matches. *)
C18_LoginCheckOrder ==
    \A e \in Emails, p \in Passwords, a \in UnknownAppIds :
        LET r == Login(Cur, now, e, p, a, "none")
            given == e # "" /\ p # ""
            known == ~UnknownEmail(e)
            matches == PasswordMatches(users, e, p)
        IN
        /\ ~r.ok /\ NoTokens(r) /\ StoreUnchanged(Cur, r)
        /\ ~given => r.err = "ValidationError" /\ r.calls = <<>>
        /\ (given /\ ~known) => r.err = "none" /\ r.calls = <<"GetUser">>
        /\ (given /\ known /\ ~matches) =>
              r.err = "InvalidCredentials" /\ r.calls = <<"GetUser", "CompareHashAndPassword">>
        /\ r.err = "NotFound" <=> (given /\ known /\ matches)
        /\ r.err = "NotFound" => r.calls = <<"GetUser", "CompareHashAndPassword", "App">>

(* C18's case: with two users registered, a Login with the right password and
   an unknown app id has just failed with NotFound, and a Login for the other
   user with that password would be refused for its password *)
C18_Witness ==
    /\ last.op = "Login"
    /\ last.err = "NotFound"
    /\ ~last.ok
    /\ Len(users) = 2
    /\ \E e \in Emails, p \in Passwords, a \in UnknownAppIds :
        /\ ~UnknownEmail(e) /\ p # "" /\ ~PasswordMatches(users, e, p)
        /\ Login(Cur, now, e, p, a, "none").err = "InvalidCredentials"

(* The tokens a holder of the signing keys can make of token k: k itself, and
   k with its user_id claim removed, with another purpose, signed with
   another app's key, or with an exp that has just passed *)
Forged(k) ==
    { [alg |-> k.alg,
       claims |-> [k.claims EXCEPT !.user_id = uid, !.purpose = purpose, !.exp = exp],
       sig |-> sig] :
        uid \in {k.claims.user_id, NotANumber},
        purpose \in {k.claims.purpose, "access"},
        exp \in {k.claims.exp, now},
        sig \in {k.sig, "secret2"} }

(* The tokens presented to RefreshToken in C19 *)
C19Tokens == {Garbage} \cup UNION {Forged(k) : k \in {wallet.token} \cup StoredTokens}

(* The stores RefreshToken runs on in C19: the current one, and the current
   one after the user rows were deleted behind the service's back *)
C19Stores == {Cur, Store(<<>>, sessions)}

(* The checks of RefreshToken in the order of C19, each with the error it
   reports and whether it fails for token k and app id a on store st *)
RefreshChecks(st, k, a) ==
    << [err |-> "NotFound", fails |-> \A app \in Apps : app.Id # a],
       [err |-> "InvalidToken",
        fails |-> ~\E app \in Apps :
                     /\ app.Id = a /\ k.alg = "HS256" /\ k.sig = app.Secret
                     /\ now < k.claims.exp],
       [err |-> "InvalidToken", fails |-> k.claims.user_id = NotANumber],
       [err |-> "WrongTokenPurpose", fails |-> k.claims.purpose # "refresh"],
       [err |-> "RevokedToken",
        fails |-> \A r \in st.sessions :
                     r.user_id = k.claims.user_id => r.refresh_token # k],
       [err |-> "NotFound",
        fails |-> \A i \in 1..Len(st.users) : st.users[i].Id # k.claims.user_id] >>

(* The error of the first check that fails, "none" when none does *)
FirstFailing(cs) ==
    IF \E i \in 1..Len(cs) : cs[i].fails
    THEN cs[CHOOSE i \in 1..Len(cs) :
                cs[i].fails /\ \A j \in 1..(i - 1) : ~cs[j].fails].err
    ELSE "none"

(* C19: RefreshToken reports the first failing check in the order app
   NotFound, InvalidToken (decode, signature or expiry), InvalidToken (no
   user_id), WrongTokenPurpose, RevokedToken (no stored session, or the
   stored token differs), NotFound (user absent), and succeeds when none
   fails.  So a valid refresh token that does not match the stored session
   yields RevokedToken even when the user no longer exists, and with a known
   app NotFound is returned only when the presented token equals the stored
   one. *)
C19_RefreshCheckOrder ==
    \A st \in C19Stores, k \in C19Tokens, a \in AppIds :
        LET r == RefreshToken(st, now, k, a, "none")
            app == App(a)
        IN
        /\ r.err = FirstFailing(RefreshChecks(st, k, a))
        /\ r.ok <=> r.err = "none"
        /\ (/\ app # NoApp /\ ParseToken(k, app, now) /\ HasUserID(k.claims)
            /\ k.claims.purpose = "refresh"
            /\ GetToken(st.sessions, k.claims.user_id) # k) => r.err = "RevokedToken"
        /\ (app # NoApp /\ r.err = "NotFound") =>
              /\ GetToken(st.sessions, k.claims.user_id) = k
              /\ GetUserByID(st.users, k.claims.user_id) = NoUser

(* C19's case: a RefreshToken with the kept token has just failed with
   RevokedToken while another user's session stands; were the user rows
   gone, the kept token would still be reported as revoked, a stored token
   would be answered with NotFound, and a stored token made into an access
   token with WrongTokenPurpose *)
C19_Witness ==
    /\ last.op = "RefreshToken"
    /\ last.kept
    /\ last.err = "RevokedToken"
    /\ sessions # {}
    /\ \E a \in ExistingAppIds :
        /\ RefreshToken(Store(<<>>, sessions), now, wallet.token, a, "none").err = "RevokedToken"
        /\ \E k \in StoredTokens :
            /\ RefreshToken(Store(<<>>, sessions), now, k, a, "none").err = "NotFound"
            /\ RefreshToken(Store(<<>>, sessions), now,
                            [k EXCEPT !.claims.purpose = "access"], a, "none").err
                   = "WrongTokenPurpose"

(* What C20 promises of a successful call r: the user's stored token in the
   store it leaves is the refresh token it returned, and no row holds the
   access token it returned *)
StoredIsReturned(r) ==
    /\ GetToken(r.sessions, r.user_id) = r.refresh
    /\ r.refresh # EmptyString
    /\ r.access # r.refresh
    /\ \A row \in r.sessions : row.refresh_token # r.access

(* C20: when a Login or RefreshToken call that runs alone succeeds, the
   user's stored session token right after the call equals the refresh token
   the call returned and the access token it returned is not stored; no
   session row ever holds an access token. *)
C20_StoredTokenIsReturnedRefresh ==
    /\ \A e \in Emails, p \in Passwords, a \in AppIds :
        LET r == Login(Cur, now, e, p, a, "none") IN
        r.ok => StoredIsReturned(r)
    /\ \A k \in Presentable, a \in AppIds :
        LET r == RefreshToken(Cur, now, k, a, "none") IN
        r.ok => StoredIsReturned(r)
    /\ (last.op \in {"Login", "RefreshToken"} /\ last.ok) =>
        /\ GetToken(sessions, last.refresh.claims.user_id) = last.refresh
        /\ last.access \notin StoredTokens
    /\ \A row \in sessions : row.refresh_token.claims.purpose # "access"

(* C20's case: a RefreshToken for a user whose session was issued in an
   earlier second has just succeeded; the user's row holds the refresh token
   it returned, and the caller keeps the access token it returned, which no
   row holds *)
C20_Witness ==
    /\ last.op = "RefreshToken"
    /\ last.ok
    /\ last.hadRow
    /\ now > 0
    /\ GetToken(sessions, last.refresh.claims.user_id) = last.refresh
    /\ wallet.token = last.access
    /\ last.access.claims.purpose = "access"
    /\ last.access \notin StoredTokens

(* Both workers ran op, on overlapping calls that have returned *)
BothOverlapped(op) ==
    \A p \in Procs :
        /\ inflight[p].op = op
        /\ inflight[p].pc = "done"
        /\ inflight[p].overlapped

(* C21: a refresh token is exchanged at most once.  Under every interleaving
   of two concurrent RefreshToken calls that present the same stored token,
   at most one call returns a new pair, and when one does the other fails
   with RevokedToken. *)
C21_ExchangedAtMostOnce ==
    (BothOverlapped("RefreshToken") /\ inflight[1].token = inflight[2].token) =>
        /\ ~(inflight[1].ok /\ inflight[2].ok)
        /\ \A p \in Procs : inflight[p].ok => inflight[Other(p)].err = "RevokedToken"

(* C22: Logout is not undone by a concurrent refresh.  Under every
   interleaving of Logout and RefreshToken calls, with no Login since: once a
   Logout has returned success and no call is in flight, the user it logged
   out has no session row and RefreshToken accepts no refresh token of that
   user. *)
C22_LogoutNotUndone ==
    \A p \in Procs :
        LET c == inflight[p] IN
        (c.op = "Logout" /\ c.pc = "done" /\ c.ok /\ Quiet) =>
            /\ UserRows(sessions, c.user_id) = {}
            /\ \A k \in Held, a \in ConcAppIds :
                k.claims.user_id = c.user_id => ~RefreshToken(Cur, now, k, a, "none").ok

(* The tokens the service issues for its users under tenant app at the
   clock's reading, and the stored and kept ones that carry its signature *)
IssuedUnder(app) ==
    UNION { {GenerateToken(app, users[i], tokenTTL, now).access,
             GenerateToken(app, users[i], tokenTTL, now).refresh} : i \in 1..Len(users) }
    \cup {k \in Presentable : k.alg = "HS256" /\ k.sig = app.Secret}

(* The call r failed with InvalidToken and returned and wrote nothing *)
RejectedAsInvalid(r) ==
    /\ ~r.ok
    /\ r.err = "InvalidToken"
    /\ NoTokens(r)
    /\ StoreUnchanged(Cur, r)

(* C23: tenant isolation.  For every two apps A and B with different secrets,
   RefreshToken and Logout called with the id of B on a token issued under A
   fail with InvalidToken and leave the store unchanged. *)
C23_TenantIsolation ==
    \A A \in Apps, B \in Apps :
        A.Secret # B.Secret =>
            \A k \in IssuedUnder(A) :
                /\ RejectedAsInvalid(RefreshToken(Cur, now, k, B.Id, "none"))
                /\ RejectedAsInvalid(Logout(Cur, now, k, B.Id, "none"))

(* C23's case: the kept token is a user's stored refresh token, which
   RefreshToken accepts under the app that issued it, and a RefreshToken or
   Logout with it under the other app has just been refused as invalid *)
C23_Witness ==
    /\ last.op \in {"RefreshToken", "Logout"}
    /\ last.kept
    /\ last.err = "InvalidToken"
    /\ wallet.token \in StoredTokens
    /\ \E A \in Apps :
        /\ wallet.token.claims.app_id = A.Id
        /\ RefreshToken(Cur, now, wallet.token, A.Id, "none").ok
        /\ \E B \in Apps : B.Secret # A.Secret

(* C24: Login issues tokens only within the user's own tenant.  In every
   successful Login the app_id claim of both returned tokens is the id of
   the tenant that owns the user and both are signed with that tenant's
   secret; a Login with an app id other than the user's owning tenant id
   returns no tokens. *)
C24_LoginWithinOwnTenant ==
    \A e \in Emails, p \in Passwords, a \in TokenAppIds :
        LET r == Login(Cur, now, e, p, a, "none")
            user == GetUser(users, e)
        IN
        /\ r.ok =>
            /\ r.access.claims.app_id = user.AppId
            /\ r.refresh.claims.app_id = user.AppId
            /\ r.access.sig = App(user.AppId).Secret
            /\ r.refresh.sig = App(user.AppId).Secret
        /\ (user # NoUser /\ a # user.AppId) => ~r.ok /\ NoTokens(r)

(* C25: in every reachable state each stored session token is a signed
   refresh-purpose token whose user_id claim is the user id of the row that
   holds it, and that user exists; no access token and no token naming
   another user is stored. *)
C25_StoredTokensAreOwnRefresh ==
    \A row \in sessions :
        LET k == row.refresh_token IN
        /\ k.alg = "HS256"
        /\ k.claims.purpose = "refresh"
        /\ k.claims.purpose # "access"
        /\ HasUserID(k.claims)
        /\ k.claims.user_id = row.user_id
        /\ GetUserByID(users, row.user_id) # NoUser
        /\ \A other \in sessions : other.user_id # row.user_id => other.refresh_token # k

(* C25's case: two users have a session each, a RefreshToken has just
   succeeded, and the caller keeps an access token, which is no row's token *)
C25_Witness ==
    /\ Cardinality(sessions) = 2
    /\ Cardinality({row.user_id : row \in sessions}) = 2
    /\ last.op = "RefreshToken"
    /\ last.ok
    /\ wallet.token.claims.purpose = "access"
    /\ wallet.token \notin StoredTokens

(* The ids of the apps in the apps table that a call may name *)
KnownAppIds == {a \in TokenAppIds : App(a) # NoApp}

(* The second in which the service issued refresh token k *)
IssuedAt(k) == k.claims.exp - RefreshTTL

(* C26: expiry is enforced at decode.  A refresh token the service issued,
   presented to RefreshToken or Logout with the id of an app of the apps
   table 24 hours or more after its issue, fails with InvalidToken, also
   when it still equals the stored session token, and the call returns
   nothing and leaves every session row in place; this holds at the current
   second and at every later one, and no RefreshToken succeeds with a token
   whose exp has been reached. *)
C26_ExpiryEnforcedAtDecode ==
    \A k \in Presentable, a \in KnownAppIds :
        /\ \A t \in Later \cup {k.claims.exp, k.claims.exp + 1} :
            (k.alg = "HS256" /\ k.claims.purpose = "refresh" /\ t >= IssuedAt(k) + RefreshTTL) =>
                LET r == RefreshToken(Cur, t, k, a, "none")
                    o == Logout(Cur, t, k, a, "none")
                IN
                /\ RejectedAsInvalid(r)
                /\ RejectedAsInvalid(o)
                /\ UserRows(r.sessions, k.claims.user_id) = UserRows(sessions, k.claims.user_id)
                /\ UserRows(o.sessions, k.claims.user_id) = UserRows(sessions, k.claims.user_id)
        /\ RefreshToken(Cur, now, k, a, "none").ok => now < k.claims.exp

(* C26's case: 24 hours after its issue the kept refresh token is still the
   stored session token of its user, and the RefreshToken or Logout just made
   with it under its own app has failed with InvalidToken *)
C26_Witness ==
    /\ last.op \in {"RefreshToken", "Logout"}
    /\ last.kept
    /\ last.err = "InvalidToken"
    /\ wallet.token.claims.purpose = "refresh"
    /\ now >= IssuedAt(wallet.token) + RefreshTTL
    /\ GetToken(sessions, wallet.token.claims.user_id) = wallet.token
    /\ \A a \in KnownAppIds :
        RefreshToken(Cur, now, wallet.token, a, "none").err = "InvalidToken"

(* What C27 promises of a call r: when it returns an error, or is a Login
   that returns the negative non-error result, users and sessions are as
   they were *)
NothingWritten(r) ==
    (r.err # "none" \/ ~r.ok) => StoreUnchanged(Cur, r)

(* C27: every Login, Register, Logout or RefreshToken call that returns an
   error, whether for its arguments, its token or a failing collaborator,
   and every Login that returns the negative non-error result, leaves users
   and sessions exactly as they were; a RefreshToken with the kept token,
   once that token has been exchanged and is revoked, leaves the user's
   current session as it is. *)
C27_FailedCallsWriteNothing ==
    /\ \A e \in Emails, p \in Passwords, a \in TokenAppIds, f \in LoginFaults :
        NothingWritten(Login(Cur, now, e, p, a, f))
    /\ \A e \in Emails, p \in RegisterPasswords, u \in Usernames, a \in AppIds,
          f \in RegisterFaults :
        NothingWritten(Register(Cur, now, e, p, u, a, f))
    /\ \A k \in Presentable, a \in TokenAppIds, f \in LogoutFaults :
        NothingWritten(Logout(Cur, now, k, a, f))
    /\ \A k \in Presentable, a \in TokenAppIds, f \in RefreshTokenFaults :
        NothingWritten(RefreshToken(Cur, now, k, a, f))
    /\ \A a \in TokenAppIds :
        LET r == RefreshToken(Cur, now, wallet.token, a, "none") IN
        (wallet.exchanged /\ r.err = "RevokedToken") =>
            /\ r.sessions = sessions
            /\ GetToken(r.sessions, wallet.token.claims.user_id)
                   = GetToken(sessions, wallet.token.claims.user_id)

(* C27's case: the kept refresh token was exchanged, the RefreshToken just
   made with it has failed with RevokedToken, and the user's current session
   is still there and still accepted *)
C27_Witness ==
    /\ last.op = "RefreshToken"
    /\ last.kept
    /\ last.err = "RevokedToken"
    /\ wallet.exchanged
    /\ last.hadRow
    /\ UserRows(sessions, wallet.token.claims.user_id) # {}
    /\ \E a \in KnownAppIds :
        RefreshToken(Cur, now, GetToken(sessions, wallet.token.claims.user_id), a, "none").ok

(* What the caller of Login sees of the call r *)
Seen(r) == [ok |-> r.ok, access |-> r.access, refresh |-> r.refresh, err |-> r.err]

(* C28: Login does not reveal whether an account exists.  For every password
   that is not the password of the existing user, the result of Login (ok
   flag, tokens and error) for an email that belongs to no user is the
   result for the email of the existing user, and so is the status of the
   response. *)
C28_LoginHidesAccountExistence ==
    \A unknown \in Emails \ {""}, i \in 1..Len(users), p \in Passwords, a \in TokenAppIds :
        (UnknownEmail(unknown) /\ users[i].Password # GenerateFromPassword(p)) =>
            /\ Seen(Login(Cur, now, unknown, p, a, "none"))
                   = Seen(Login(Cur, now, users[i].Email, p, a, "none"))
            /\ ServerLogin(Cur, now, unknown, p, a, "none")
                   = ServerLogin(Cur, now, users[i].Email, p, a, "none")

====
